---------------------------- MODULE Spec2Model ----------------------------
(***************************************************************************)
(* A model of skchem/features/atom.py: the atom feature functions, the     *)
(* ATOM_FEATURES registry, AtomFeaturizer and the distance transformers.   *)
(*                                                                         *)
(* Python values are modelled as follows.                                  *)
(*   - a dict (insertion ordered, unique keys) is a sequence of            *)
(*     <<key, value>> pairs; a pandas Series built from it keeps the       *)
(*     pairs, its index being the keys in order;                           *)
(*   - a scalar returned by a feature is [ty, n]: a bool or a number;      *)
(*   - a cell of a distance table is [nan, v]: the NaN sentinel or a       *)
(*     distance.                                                           *)
(***************************************************************************)
EXTENDS Integers, Sequences, FiniteSets, TLC

VARIABLES
    registry,   \* the module-level dict ATOM_FEATURES
    obj,        \* "none" before an AtomFeaturizer exists, then "live"
    _features,  \* AtomFeaturizer._features (a Series: <<name, function>> pairs)
    err,        \* the exception the last call raised, or "none"
    call,       \* the last call and its arguments
    out,        \* what the last call returned
    lastGood,   \* history: the value of the last assignment that did not raise
    mol,        \* the molecule (or atom, or batch) at hand; its atoms carry the props
    computed    \* whether the last call ran rdPartialCharges.ComputeGasteigerCharges

vars == <<registry, obj, _features, err, call, out, lastGood, mol, computed>>

-----------------------------------------------------------------------------
(* Bounds of the model. *)

\* longest list / mapping given to the features setter
MaxList == 2
\* most atoms in a molecule given to a distance transformer
MaxAtoms == 5
\* most molecules in a batch
MaxBatch == 3
\* most atoms in a molecule given to the AtomFeaturizer
MaxMolLen == 2

-----------------------------------------------------------------------------
(* Python helpers. *)

Bool(b) == [ty |-> "bool", n |-> IF b THEN 1 ELSE 0]
Num(n) == [ty |-> "num", n |-> n]

Range(s) == {s[i] : i \in 1..Len(s)}

Keys(d) == [i \in 1..Len(d) |-> d[i][1]]

HasKey(d, k) == \E i \in 1..Len(d) : d[i][1] = k

\* d[k]; the caller has checked HasKey(d, k)
DictGet(d, k) == d[CHOOSE i \in 1..Len(d) : d[i][1] = k][2]

\* d[k] = v: an existing key keeps its place, a new key goes last
DictSet(d, k, v) ==
    IF HasKey(d, k)
    THEN [i \in 1..Len(d) |-> IF d[i][1] = k THEN <<k, v>> ELSE d[i]]
    ELSE Append(d, <<k, v>>)

RECURSIVE DictUpdate(_, _)
\* d.update(e), and also dict(e) / {k: v for ...} when d is empty
DictUpdate(d, e) ==
    IF e = <<>> THEN d
    ELSE DictUpdate(DictSet(d, Head(e)[1], Head(e)[2]), Tail(e))

-----------------------------------------------------------------------------
(* The toolkit's enumeration of hybridization states, name and value. *)

HybridizationNames ==
    << <<"UNSPECIFIED", 0>>, <<"S", 1>>, <<"SP", 2>>, <<"SP2", 3>>,
       <<"SP3", 4>>, <<"SP3D", 5>>, <<"SP3D2", 6>>, <<"OTHER", 7>> >>

HybValues == {HybridizationNames[i][2] : i \in 1..Len(HybridizationNames)}

\* a Python value that is a str or a HybridizationType enumerant
StrVal(s) == [kind |-> "str", s |-> s, v |-> 0]
EnumVal(v) == [kind |-> "enum", s |-> "", v |-> v]

\* str(x): a str is itself, an enumerant prints as its name
PyStr(x) ==
    IF x.kind = "str" THEN x.s
    ELSE HybridizationNames[CHOOSE i \in 1..Len(HybridizationNames) :
                                HybridizationNames[i][2] = x.v][1]

\* the elements of skchem.resource.ORGANIC
ORGANIC == <<"H", "B", "C", "N", "O", "F", "Si", "P", "S", "Cl", "Br", "I">>

\* skchem.resource.PERIODIC_TABLE, indexed by atomic number
PERIODIC_TABLE ==
    [z \in {1, 6, 7, 8, 17, 26} |->
        CASE z = 1  -> [symbol |-> "H",  mass |-> 1,  en |-> 220, ion |-> 1312, group |-> 1,  period |-> 1]
          [] z = 6  -> [symbol |-> "C",  mass |-> 12, en |-> 255, ion |-> 1086, group |-> 14, period |-> 2]
          [] z = 7  -> [symbol |-> "N",  mass |-> 14, en |-> 304, ion |-> 1402, group |-> 15, period |-> 2]
          [] z = 8  -> [symbol |-> "O",  mass |-> 16, en |-> 344, ion |-> 1314, group |-> 16, period |-> 2]
          [] z = 17 -> [symbol |-> "Cl", mass |-> 35, en |-> 316, ion |-> 1251, group |-> 17, period |-> 3]
          [] z = 26 -> [symbol |-> "Fe", mass |-> 56, en |-> 183, ion |-> 762,  group |-> 8,  period |-> 4]]

AtomicNumbers == DOMAIN PERIODIC_TABLE

NoProp == [set |-> FALSE, v |-> 0]
Prop(v) == [set |-> TRUE, v |-> v]

\* An atom as the toolkit presents it: z its atomic number, hyb its
\* hybridization enumerant, q the Gasteiger charge the toolkit computes for it,
\* ring / arom its ring flags, cache its '_GasteigerCharge' prop.
Atom(z, hyb, q, ring, cache) ==
    [z |-> z, hyb |-> hyb, q |-> q, ring |-> ring, arom |-> ring /\ hyb = 3,
     fc |-> 0, ev |-> IF z = 1 THEN 1 ELSE 2, iv |-> IF z = 6 THEN 2 ELSE 0,
     nih |-> IF z = 6 THEN 2 ELSE 0, neh |-> IF z = 7 THEN 1 ELSE 0,
     cache |-> cache]


-----------------------------------------------------------------------------
(* The feature functions. *)

element(a) == PERIODIC_TABLE[a.z].symbol

is_element(a, symbol) == element(a) = symbol

\* closures that all read the loop variable after the loop has ended
element_features_late ==
    DictUpdate(<<>>, [i \in 1..Len(ORGANIC) |->
        <<"is_" \o ORGANIC[i], [op |-> "is_element", arg |-> ORGANIC[Len(ORGANIC)]]>>])

\* the dict comprehension over ORGANIC: 'is_<e>' -> partial(is_element, symbol=e)
element_features ==
    DictUpdate(<<>>, [i \in 1..Len(ORGANIC) |->
        <<"is_" \o ORGANIC[i], [op |-> "is_element", arg |-> ORGANIC[i]]>>])

atomic_number(a) == a.z

atomic_mass(a) == PERIODIC_TABLE[a.z].mass

explicit_valence(a) == a.ev

implicit_valence(a) == a.iv

valence(a) == explicit_valence(a) + implicit_valence(a)

formal_charge(a) == a.fc

is_aromatic(a) == a.arom

num_implicit_hydrogens(a) == a.nih

num_explicit_hydrogens(a) == a.neh

num_hydrogens(a) == num_implicit_hydrogens(a) + num_explicit_hydrogens(a)

is_in_ring(a) == a.ring

\* Lipinski's matches, as the toolkit would list the atom's index or not
is_h_acceptor(a) == a.z \in {7, 8}

is_h_donor(a) == a.z \in {7, 8} /\ a.iv > 0

is_hetero(a) == a.z \notin {1, 6}

\* the toolkit's per-atom contributions, scaled to integers
crippen_log_p_contrib(a) == a.z + 100

crippen_molar_refractivity_contrib(a) == a.z + 200

tpsa_contrib(a) == IF a.z \in {7, 8} THEN 20 ELSE 0

labute_asa_contrib(a) == a.z + 300

\* Python truth of a prop read with props.get(key, None)
Truthy(res) == res.set /\ res.v # 0

\* the toolkit stores the charge it computed for an atom in the atom's prop
SetCharge(a) == [a EXCEPT !.cache = Prop(a.q)]

\* rdPartialCharges.ComputeGasteigerCharges(m): every atom of m gets its prop
ComputeGasteigerCharges(m) == [j \in 1..Len(m) |-> SetCharge(m[j])]

\* gasteiger_charge on atom i of its owning molecule m: res the float
\* returned, computed whether this call ran ComputeGasteigerCharges, mol the
\* molecule afterwards
gasteiger_charge(m, i, force_calc) ==
    LET res == m[i].cache
    IN  IF Truthy(res) /\ ~force_calc
        THEN [res |-> res.v, computed |-> FALSE, mol |-> m]
        ELSE LET m2 == ComputeGasteigerCharges(m)
             IN  [res |-> m2[i].cache.v, computed |-> TRUE, mol |-> m2]

pauling_electronegativity(a) == PERIODIC_TABLE[a.z].en

first_ionization(a) == PERIODIC_TABLE[atomic_number(a)].ion

group(a) == PERIODIC_TABLE[atomic_number(a)].group

period(a) == PERIODIC_TABLE[atomic_number(a)].period

\* a comparison of the enumerant with hybrid_type as they are, without str()
is_hybridized_raw(a, hybrid_type) == EnumVal(a.hyb) = hybrid_type

is_hybridized(a, hybrid_type) == PyStr(EnumVal(a.hyb)) = PyStr(hybrid_type)

\* the dict comprehension over HybridizationType.names: iterating the names
\* mapping yields its keys, so hybrid_type is bound to the name, a str
hybridization_features ==
    DictUpdate(<<>>, [i \in 1..Len(HybridizationNames) |->
        <<"is_" \o HybridizationNames[i][1] \o "_hybridized",
          [op |-> "is_hybridized", arg |-> HybridizationNames[i][1]]>>])

Fn(op) == [op |-> op, arg |-> ""]

\* the literal ATOM_FEATURES = {...}
StaticFeatures ==
    << <<"atomic_number", Fn("atomic_number")>>,
       <<"atomic_mass", Fn("atomic_mass")>>,
       <<"formal_charge", Fn("formal_charge")>>,
       <<"gasteiger_charge", Fn("gasteiger_charge")>>,
       <<"pauling_electronegativity", Fn("pauling_electronegativity")>>,
       <<"first_ionisation", Fn("first_ionization")>>,
       <<"group", Fn("group")>>,
       <<"period", Fn("period")>>,
       <<"valence", Fn("valence")>>,
       <<"is_aromatic", Fn("is_aromatic")>>,
       <<"num_hydrogens", Fn("num_hydrogens")>>,
       <<"is_in_ring", Fn("is_in_ring")>>,
       <<"log_p_contrib", Fn("crippen_log_p_contrib")>>,
       <<"molar_refractivity_contrib", Fn("crippen_molar_refractivity_contrib")>>,
       <<"is_h_acceptor", Fn("is_h_acceptor")>>,
       <<"is_h_donor", Fn("is_h_donor")>>,
       <<"is_heteroatom", Fn("is_hetero")>>,
       <<"total_polar_surface_area_contrib", Fn("tpsa_contrib")>>,
       <<"total_labute_accessible_surface_area", Fn("labute_asa_contrib")>> >>

\* the registry after the two ATOM_FEATURES.update(...) calls
ATOM_FEATURES ==
    DictUpdate(DictUpdate(StaticFeatures, element_features),
               hybridization_features)

\* f(atom) for a function object f of the registry
Apply(f, a) ==
    CASE f.op = "is_element" -> Bool(is_element(a, f.arg))
      [] f.op = "is_hybridized" -> Bool(is_hybridized(a, StrVal(f.arg)))
      [] f.op = "atomic_number" -> Num(atomic_number(a))
      [] f.op = "atomic_mass" -> Num(atomic_mass(a))
      [] f.op = "formal_charge" -> Num(formal_charge(a))
      [] f.op = "gasteiger_charge" -> Num(gasteiger_charge(<<a>>, 1, FALSE).res)
      [] f.op = "pauling_electronegativity" -> Num(pauling_electronegativity(a))
      [] f.op = "first_ionization" -> Num(first_ionization(a))
      [] f.op = "group" -> Num(group(a))
      [] f.op = "period" -> Num(period(a))
      [] f.op = "valence" -> Num(valence(a))
      [] f.op = "is_aromatic" -> Bool(is_aromatic(a))
      [] f.op = "num_hydrogens" -> Num(num_hydrogens(a))
      [] f.op = "is_in_ring" -> Bool(is_in_ring(a))
      [] f.op = "crippen_log_p_contrib" -> Num(crippen_log_p_contrib(a))
      [] f.op = "crippen_molar_refractivity_contrib" ->
            Num(crippen_molar_refractivity_contrib(a))
      [] f.op = "is_h_acceptor" -> Bool(is_h_acceptor(a))
      [] f.op = "is_h_donor" -> Bool(is_h_donor(a))
      [] f.op = "is_hetero" -> Bool(is_hetero(a))
      [] f.op = "tpsa_contrib" -> Num(tpsa_contrib(a))
      [] f.op = "labute_asa_contrib" -> Num(labute_asa_contrib(a))

-----------------------------------------------------------------------------
(* AtomFeaturizer. *)

\* A value given as `features`: shape is its Python type, s a str's text,
\* names a list's (or tuple's) entries, map a dict's or Series' items.
Value(shape, s, names, map) == [shape |-> shape, s |-> s, names |-> names, map |-> map]

Reverse(q) == [i \in 1..Len(q) |-> q[Len(q) + 1 - i]]

\* a Series that does not keep the order of the dict it is built from
Series_reversed(index_name, d) == [index_name |-> index_name, data |-> Reverse(d)]

\* pd.Series(d) with its index named
Series(index_name, d) == [index_name |-> index_name, data |-> d]

NoSeries == [index_name |-> "", data |-> <<>>]

Raise(e) == [err |-> e, d |-> <<>>]
Ok(d) == [err |-> "none", d |-> d]

\* the str branch: 'all' is the registry itself, any other str is looked up
resolve_str(reg, s) ==
    IF s = "all" THEN Ok(reg)
    ELSE IF HasKey(reg, s) THEN Ok(<< <<s, DictGet(reg, s)>> >>)
         ELSE Raise("KeyError")

\* a list branch that drops the entries the registry does not have
resolve_list_skip(reg, names) ==
    Ok(DictUpdate(<<>>, SelectSeq([i \in 1..Len(names) |->
                                    <<names[i], IF HasKey(reg, names[i])
                                                THEN DictGet(reg, names[i])
                                                ELSE Fn("")>>],
                                  LAMBDA kv : HasKey(reg, kv[1]))))

\* the list branch: a dict comprehension that looks every entry up
resolve_list(reg, names) ==
    IF \A i \in 1..Len(names) : HasKey(reg, names[i])
    THEN Ok(DictUpdate(<<>>, [i \in 1..Len(names) |->
                                <<names[i], DictGet(reg, names[i])>>]))
    ELSE Raise("KeyError")

\* an isinstance chain that takes a tuple for a list
resolve_tuple(reg, features) ==
    IF features.shape = "str" THEN resolve_str(reg, features.s)
    ELSE IF features.shape \in {"list", "tuple"}
    THEN resolve_list(reg, features.names)
    ELSE IF features.shape \in {"dict", "Series"} THEN Ok(features.map)
    ELSE Raise("NotImplementedError")

\* the isinstance chain of the setter: the dict to build the Series from
resolve(reg, features) ==
    IF features.shape = "str" THEN resolve_str(reg, features.s)
    ELSE IF features.shape = "list" THEN resolve_list(reg, features.names)
    ELSE IF features.shape \in {"dict", "Series"} THEN Ok(features.map)
    ELSE Raise("NotImplementedError")

\* the setter fails before it assigns
features_setter_clear(old, reg, features) ==
    LET r == resolve(reg, features)
    IN  [err |-> r.err,
         _features |-> IF r.err = "none" THEN Series("atom_features", r.d)
                       ELSE NoSeries,
         registry |-> reg]

\* The features setter on a featurizer whose _features is `old`, reading the
\* registry `reg`: err the exception raised or "none", _features and registry
\* the attribute and the registry afterwards.
features_setter(old, reg, features) ==
    LET r == resolve(reg, features)
    IN  IF r.err # "none"
        THEN [err |-> r.err, _features |-> old, registry |-> reg]
        ELSE [err |-> "none", _features |-> Series("atom_features", r.d),
              registry |-> reg]

\* AtomFeaturizer.minor_axis: the index of the Series
minor_axis(feats) == [name |-> feats.index_name, labels |-> Keys(feats.data)]

\* AtomFeaturizer._transform_atom: Series.apply keeps the Series' order
_transform_atom(feats, atom) ==
    [j \in 1..Len(feats.data) |-> Apply(feats.data[j][2], atom)]

\* The base class's transform on an atom dispatches to _transform_atom.
transform_atom(feats, atom) == _transform_atom(feats, atom)

\* a _transform_mol that walks the atoms backwards
_transform_mol_reversed(feats, m) ==
    [i \in 1..Len(m) |-> transform_atom(feats, m[Len(m) + 1 - i])]

\* AtomFeaturizer._transform_mol: one row per atom of mol.atoms, in its order
_transform_mol(feats, m) == [i \in 1..Len(m) |-> transform_atom(feats, m[i])]

\* The base class's transform on a single molecule: the table of
\* _transform_mol, its columns labelled by minor_axis.
transform_mol(feats, m) ==
    [values |-> _transform_mol(feats, m), columns |-> minor_axis(feats)]

-----------------------------------------------------------------------------
(* The distance transformers. *)

NaN == [nan |-> TRUE, v |-> 0]
Val(d) == [nan |-> FALSE, v |-> d]

Min(a, b) == IF a < b THEN a ELSE b
Abs(x) == IF x < 0 THEN -x ELSE x

\* skchem.utils.nanarray(shape)
nanarray(rows, cols) == [i \in 1..rows |-> [j \in 1..cols |-> NaN]]

\* A molecule as the distance transformers see it: n atoms, bonded in a chain,
\* its conformer placing atom i at step * i on a line.
Chain(n, step) == [n |-> n, step |-> step]

\* Chem.GetDistanceMatrix(mol): bond counts between the atoms of the chain
GetDistanceMatrix(m) == [i \in 1..m.n |-> [j \in 1..m.n |-> Val(Abs(i - j))]]

\* Chem.Get3DDistanceMatrix(mol): Euclidean distances in the conformer
Get3DDistanceMatrix(m) ==
    [i \in 1..m.n |-> [j \in 1..m.n |-> Val(Abs(m.step * i - m.step * j))]]

\* numpy's res[:rows, :cols] = d. The slice is clipped to res; d must have the
\* slice's shape (or broadcast from a length-1 axis), else ValueError.
SetSlice(res, rows, cols, d) ==
    LET nr == Min(rows, Len(res))
        nc == IF Len(res) = 0 THEN 0 ELSE Min(cols, Len(res[1]))
        dr == Len(d)
        dc == IF dr = 0 THEN 0 ELSE Len(d[1])
    IN  IF (dr = nr \/ dr = 1) /\ (dc = nc \/ dc = 1)
        THEN [err |-> "none",
              table |-> [i \in 1..Len(res) |-> [j \in 1..Len(res[i]) |->
                            IF i <= nr /\ j <= nc
                            THEN d[IF dr = 1 THEN 1 ELSE i][IF dc = 1 THEN 1 ELSE j]
                            ELSE res[i][j]]]]
        ELSE [err |-> "ValueError", table |-> <<>>]

\* SpacialDistanceTransformer._transform_mol: res[:, :len(mol.atoms)] = ...
Spacial_transform_mol(m, max_atoms) ==
    LET res == nanarray(m.n, max_atoms)
    IN  SetSlice(res, Len(res), m.n, Get3DDistanceMatrix(m))

\* a table allocated max_atoms x max_atoms
Graph_transform_mol_square(m, max_atoms) ==
    LET res == nanarray(max_atoms, max_atoms)
    IN  SetSlice(res, m.n, m.n, GetDistanceMatrix(m))

\* GraphDistanceTransformer._transform_mol: res[:len(mol.atoms), :len(mol.atoms)] = ...
Graph_transform_mol(m, max_atoms) ==
    LET res == nanarray(m.n, max_atoms)
    IN  SetSlice(res, m.n, m.n, GetDistanceMatrix(m))

Dist_transform_mol(kind, m, max_atoms) ==
    IF kind = "spacial_dist" THEN Spacial_transform_mol(m, max_atoms)
    ELSE Graph_transform_mol(m, max_atoms)

\* DataFrame.iloc[:rows, :cols]: slices are clipped to the frame
Iloc(t, rows, cols) ==
    [i \in 1..Min(rows, Len(t)) |-> [j \in 1..Min(cols, Len(t[i])) |-> t[i][j]]]

\* a transform that returns the table as the base class gives it
Dist_transform_uncropped(kind, m, max_atoms) == Dist_transform_mol(kind, m, max_atoms)

\* DistanceTransformer.transform on a single molecule: the base class's
\* transform wraps the table of _transform_mol, and the result is cropped.
Dist_transform(kind, m, max_atoms) ==
    LET res == Dist_transform_mol(kind, m, max_atoms)
    IN  IF res.err # "none" THEN res
        ELSE [err |-> "none", table |-> Iloc(res.table, m.n, m.n)]

\* The base class's batch transform: every molecule's table is placed in a
\* max_atoms x max_atoms table of the sentinel, max_atoms being the largest
\* atom count of the batch; DistanceTransformer.transform leaves it uncropped.
MaxAtomsOf(ms) == CHOOSE k \in {ms[i].n : i \in 1..Len(ms)} :
                      \A i \in 1..Len(ms) : ms[i].n <= k

\* per_mol the tables of _transform_mol, stacked the padded tables returned
Dist_transform_batch(kind, ms) ==
    LET max_atoms == MaxAtomsOf(ms)
        per_mol == [i \in 1..Len(ms) |->
                        Dist_transform_mol(kind, ms[i], max_atoms).table]
    IN  [per_mol |-> per_mol,
         stacked |-> [i \in 1..Len(ms) |->
                        SetSlice(nanarray(max_atoms, max_atoms),
                                 Len(per_mol[i]), max_atoms, per_mol[i]).table]]

-----------------------------------------------------------------------------
(* Inputs. *)

Seqs(S, n) == UNION {[1..k -> S] : k \in 0..n}

\* names given to the setter: three of the registry and one that is not
NamePool == {"is_C", "atomic_number", "is_SP3_hybridized", "no_such_feature"}

ListValues == {Value("list", "", l, <<>>) : l \in Seqs(NamePool, MaxList)}

StrValues == {Value("str", n, <<>>, <<>>) : n \in NamePool \cup {"all"}}

\* caller-supplied mappings: dicts have distinct keys
MapItems == {"mine", "is_C"} \X {Fn("is_aromatic"), Fn("atomic_mass")}

Maps == {d \in Seqs(MapItems, MaxList) :
            \A i, j \in 1..Len(d) : d[i][1] = d[j][1] => i = j}

MapValues == {Value(sh, "", <<>>, d) : sh \in {"dict", "Series"}, d \in Maps}

OtherValues == {Value("int", "42", <<>>, <<>>), Value("float", "1.5", <<>>, <<>>),
                Value("NoneType", "None", <<>>, <<>>),
                Value("tuple", "", <<"is_C">>, <<>>)}

FeatureValues == ListValues \cup StrValues \cup MapValues \cup OtherValues

\* the atoms of the molecules given to the AtomFeaturizer: C, O and Fe
FeatAtoms == {Atom(6, 4, -1, FALSE, NoProp), Atom(8, 3, 0, TRUE, NoProp),
              Atom(26, 7, 2, FALSE, NoProp)}

FeatMols == Seqs(FeatAtoms, MaxMolLen) \ {<<>>}

\* the atoms the registry's functions are called on
AllAtoms == {Atom(z, h, q, r, NoProp) :
                z \in AtomicNumbers, h \in HybValues, q \in {-1, 0, 1}, r \in BOOLEAN}

\* molecules with no charges computed yet
ChargeAtoms == {Atom(z, 4, q, FALSE, NoProp) : z \in {1, 6}, q \in {-1, 0, 1}}

ChargeMols == Seqs(ChargeAtoms, MaxMolLen) \ {<<>>}

DistKinds == {"spacial_dist", "graph_dist"}

DistMols == {Chain(n, st) : n \in 1..MaxAtoms, st \in {1, 2}}

-----------------------------------------------------------------------------
(* The state machine. *)

NoCall == [op |-> "none"]
NoOut == <<>>

InitBase ==
    /\ registry = ATOM_FEATURES
    /\ obj = "none"
    /\ _features = NoSeries
    /\ err = "none"
    /\ call = NoCall
    /\ out = NoOut
    /\ lastGood = Value("NoneType", "None", <<>>, <<>>)
    /\ computed = FALSE

Init == InitBase /\ mol = <<>>

\* AtomFeaturizer(features=v): _features = None, then the setter; an exception
\* leaves no featurizer
Construct(v) ==
    /\ obj = "none"
    /\ LET r == features_setter(NoSeries, registry, v)
       IN  /\ err' = r.err
           /\ registry' = r.registry
           /\ obj' = IF r.err = "none" THEN "live" ELSE "none"
           /\ _features' = IF r.err = "none" THEN r._features ELSE NoSeries
           /\ lastGood' = IF r.err = "none" THEN v ELSE lastGood
    /\ call' = [op |-> "__init__", features |-> v]
    /\ out' = NoOut
    /\ UNCHANGED <<mol, computed>>

\* featurizer.features = v
SetFeatures(v) ==
    /\ obj = "live"
    /\ LET r == features_setter(_features, registry, v)
       IN  /\ err' = r.err
           /\ registry' = r.registry
           /\ _features' = r._features
           /\ lastGood' = IF r.err = "none" THEN v ELSE lastGood
    /\ call' = [op |-> "features", features |-> v]
    /\ out' = NoOut
    /\ UNCHANGED <<obj, mol, computed>>

\* featurizer.transform(m) for a molecule m
TransformMol(m) ==
    /\ obj = "live"
    /\ out' = transform_mol(_features, m)
    /\ call' = [op |-> "transform_mol", mol |-> m]
    /\ err' = "none"
    /\ UNCHANGED <<registry, obj, _features, lastGood, mol, computed>>

\* featurizer.transform(a) for an atom a
TransformAtom(a) ==
    /\ obj = "live"
    /\ out' = transform_atom(_features, a)
    /\ call' = [op |-> "transform_atom", atom |-> a]
    /\ err' = "none"
    /\ UNCHANGED <<registry, obj, _features, lastGood, mol, computed>>

Next ==
    \/ \E v \in FeatureValues : Construct(v)
    \/ \E v \in FeatureValues : SetFeatures(v)
    \/ \E m \in FeatMols : TransformMol(m)
    \/ \E a \in FeatAtoms : TransformAtom(a)

Spec == Init /\ [][Next]_vars

InitRegistry == InitBase /\ mol \in {<<a>> : a \in AllAtoms}

\* a registry function called on the atom: ATOM_FEATURES[name](a)
CallFeature(name) ==
    /\ HasKey(registry, name)
    /\ out' = Apply(DictGet(registry, name), mol[1])
    /\ call' = [op |-> "feature", name |-> name, atom |-> mol[1]]
    /\ err' = "none"
    /\ UNCHANGED <<registry, obj, _features, lastGood, mol, computed>>

\* AtomFeaturizer() and its transform of an atom: the row of every registry
\* feature
FeaturizeAtom ==
    /\ LET r == features_setter(NoSeries, registry, Value("str", "all", <<>>, <<>>))
       IN  /\ err' = r.err
           /\ registry' = r.registry
           /\ obj' = "live"
           /\ _features' = r._features
           /\ out' = transform_atom(r._features, mol[1])
    /\ lastGood' = Value("str", "all", <<>>, <<>>)
    /\ call' = [op |-> "transform_atom", atom |-> mol[1]]
    /\ UNCHANGED <<mol, computed>>

NextRegistry ==
    \/ \E n \in Range(Keys(ATOM_FEATURES)) : CallFeature(n)
    \/ FeaturizeAtom

SpecRegistry == InitRegistry /\ [][NextRegistry]_vars

InitCharge == InitBase /\ mol \in ChargeMols

\* gasteiger_charge(mol.atoms[i], force_calc=force_calc)
Gasteiger(i, force_calc) ==
    /\ i \in 1..Len(mol)
    /\ LET r == gasteiger_charge(mol, i, force_calc)
       IN  /\ out' = r.res
           /\ computed' = r.computed
           /\ mol' = r.mol
    /\ call' = [op |-> "gasteiger_charge", idx |-> i, force_calc |-> force_calc,
                cache |-> mol[i].cache]
    /\ err' = "none"
    /\ UNCHANGED <<registry, obj, _features, lastGood>>

NextCharge == \E i \in 1..MaxMolLen, f \in BOOLEAN : Gasteiger(i, f)

SpecCharge == InitCharge /\ [][NextCharge]_vars

\* the molecules at hand: a batch of one or more
InitDist == InitBase /\ mol \in Seqs(DistMols, MaxBatch) \ {<<>>}

\* transformer._transform_mol(m) on a transformer with the given max_atoms
DistTransformMol(kind, m, max_atoms) ==
    /\ LET r == Dist_transform_mol(kind, m, max_atoms)
       IN  err' = r.err /\ out' = r.table
    /\ call' = [op |-> "_transform_mol", kind |-> kind, mol |-> m,
                max_atoms |-> max_atoms]
    /\ UNCHANGED <<registry, obj, _features, lastGood, mol, computed>>

\* transformer.transform(m) for a single molecule m
DistTransform(kind, m, max_atoms) ==
    /\ LET r == Dist_transform(kind, m, max_atoms)
       IN  err' = r.err /\ out' = r.table
    /\ call' = [op |-> "transform", kind |-> kind, mol |-> m,
                max_atoms |-> max_atoms]
    /\ UNCHANGED <<registry, obj, _features, lastGood, mol, computed>>

\* transformer.transform(ms) for a batch of molecules ms
DistTransformBatch(kind, ms) ==
    /\ out' = Dist_transform_batch(kind, ms)
    /\ err' = "none"
    /\ call' = [op |-> "transform_batch", kind |-> kind, mols |-> ms,
                max_atoms |-> MaxAtomsOf(ms)]
    /\ UNCHANGED <<registry, obj, _features, lastGood, mol, computed>>

NextDist ==
    \/ \E k \in DistKinds, n \in 1..(MaxAtoms + 1) :
          Len(mol) = 1 /\ DistTransformMol(k, mol[1], n)
    \/ \E k \in DistKinds, n \in 1..(MaxAtoms + 1) :
          Len(mol) = 1 /\ DistTransform(k, mol[1], n)
    \/ \E k \in DistKinds : DistTransformBatch(k, mol)

SpecDist == InitDist /\ [][NextDist]_vars

-----------------------------------------------------------------------------
(* Properties of the AtomFeaturizer, under Spec. *)

Assigned == call.op \in {"__init__", "features"}

Labels == minor_axis(_features).labels

Registered(n) == \E i \in 1..Len(ATOM_FEATURES) : ATOM_FEATURES[i][1] = n

RECURSIVE Distinct(_)
\* the entries of a list without the repeats of an earlier entry
Distinct(l) ==
    IF l = <<>> THEN <<>>
    ELSE LET front == [i \in 1..(Len(l) - 1) |-> l[i]]
             last == l[Len(l)]
         IN  IF \E i \in 1..Len(front) : front[i] = last
             THEN Distinct(front)
             ELSE Append(Distinct(front), last)

\* C1 as stated: after a successful assignment the column labels are the
\* one name given, or the list given element for element, or, for 'all', the
\* registry's names, as many as the registry has entries.
C1_LabelsEqualRequest ==
    (Assigned /\ err = "none") =>
        /\ (call.features.shape = "str" /\ call.features.s # "all")
              => Labels = <<call.features.s>>
        /\ call.features.shape = "list" => Labels = call.features.names
        /\ (call.features.shape = "str" /\ call.features.s = "all")
              => (Labels = Keys(ATOM_FEATURES) /\ Len(Labels) = Len(ATOM_FEATURES))

\* C1 amended: as C1, but for a list the labels are the list's distinct names
\* in order of first occurrence, which is the list itself exactly when no name
\* is repeated in it.
C1_LabelsEqualDistinctRequest ==
    (Assigned /\ err = "none") =>
        /\ (call.features.shape = "str" /\ call.features.s # "all")
              => Labels = <<call.features.s>>
        /\ call.features.shape = "list" =>
              /\ Labels = Distinct(call.features.names)
              /\ (Labels = call.features.names
                    <=> \A i, j \in 1..Len(call.features.names) :
                          call.features.names[i] = call.features.names[j] => i = j)
        /\ (call.features.shape = "str" /\ call.features.s = "all")
              => (Labels = Keys(ATOM_FEATURES) /\ Len(Labels) = Len(ATOM_FEATURES))

C1_Witness ==
    /\ Assigned /\ err = "none"
    /\ call.features.shape = "list"
    /\ Len(call.features.names) = 2
    /\ call.features.names[1] # call.features.names[2]
    /\ Labels = call.features.names

\* the names of an assignment that the registry does not have
Unknown(v) ==
    IF v.shape = "str" THEN {n \in {v.s} : n # "all" /\ ~Registered(n)}
    ELSE IF v.shape = "list" THEN {n \in Range(v.names) : ~Registered(n)}
    ELSE {}

\* C2: an assignment of a str other than 'all', or of a list, that names a
\* feature the registry does not have raises KeyError (UnknownFeatureName) and
\* produces no selection: the constructor leaves no featurizer, the setter
\* leaves the featurizer's selection as it was.
C2_UnknownNameRaises ==
    [][(Assigned' /\ Unknown(call'.features) # {}) =>
          /\ err' = "KeyError"
          /\ _features' = _features
          /\ obj' = obj
          /\ call'.op = "__init__" => obj' = "none"]_vars

C2_Witness ==
    /\ call.op = "features" /\ err = "KeyError"
    /\ call.features.shape = "list"
    /\ Len(call.features.names) = 2
    /\ Registered(call.features.names[1])
    /\ ~Registered(call.features.names[2])
    /\ Len(Labels) > 0

RecognisedShapes == {"str", "list", "dict", "Series"}

\* C3: an assignment of a value that is no str, list or mapping raises
\* NotImplementedError (UnsupportedFeatureSpec); one of a recognised shape whose
\* names are all registered raises nothing.
C3_ShapeDecidesError ==
    Assigned =>
        /\ call.features.shape \notin RecognisedShapes => err = "NotImplementedError"
        /\ (call.features.shape \in RecognisedShapes /\ Unknown(call.features) = {})
              => err = "none"

C3_Witness ==
    /\ Assigned /\ call.features.shape = "tuple" /\ err = "NotImplementedError"

\* C6: transform of a molecule returns one row per atom, in the molecule's
\* atom order, and one column per selected feature, in selection order; cell
\* (i, j) is the j-th selected function applied to the i-th atom. transform of
\* an atom returns that atom's row.
C6_TableCells ==
    /\ call.op = "transform_mol" =>
          /\ Len(out.values) = Len(call.mol)
          /\ out.columns.labels = Labels
          /\ \A i \in 1..Len(call.mol) :
                /\ Len(out.values[i]) = Len(_features.data)
                /\ \A j \in 1..Len(_features.data) :
                      out.values[i][j] = Apply(_features.data[j][2], call.mol[i])
    /\ call.op = "transform_atom" =>
          /\ Len(out) = Len(_features.data)
          /\ \A j \in 1..Len(_features.data) :
                out[j] = Apply(_features.data[j][2], call.atom)

C6_Witness ==
    /\ call.op = "transform_mol"
    /\ Len(call.mol) = 2 /\ call.mol[1] # call.mol[2]
    /\ Len(_features.data) = 2
    /\ out.values[1] # out.values[2]
    /\ out.values[1][1] # out.values[1][2]

\* the labels an assignment of v selects
Selects(v) ==
    IF v.shape = "str" THEN (IF v.s = "all" THEN Keys(ATOM_FEATURES) ELSE <<v.s>>)
    ELSE IF v.shape = "list" THEN Distinct(v.names)
    ELSE Keys(v.map)

\* C10: an assignment that raises leaves the featurizer's selection and labels
\* as they were; the selection is always the one of the last assignment that
\* did not raise; no call changes the registry.
C10_FailedAssignmentKeepsSelection ==
    [][/\ registry' = registry
       /\ (call'.op = "features" /\ err' # "none") =>
              (_features' = _features /\ obj' = obj /\ lastGood' = lastGood)
       /\ obj' = "live" => minor_axis(_features').labels = Selects(lastGood')]_vars

C10_Witness ==
    /\ call.op = "features" /\ err = "NotImplementedError"
    /\ Len(Labels) = 2
    /\ lastGood.shape = "list"

-----------------------------------------------------------------------------
(* Properties of the distance transformers, under SpecDist. *)

\* the toolkit's distance between atoms i and j of m, for the given subclass
Distance(kind, m, i, j) ==
    IF kind = "spacial_dist" THEN Get3DDistanceMatrix(m)[i][j]
    ELSE GetDistanceMatrix(m)[i][j]

\* C4: transform of a single molecule of k atoms, on a transformer whose
\* max_atoms is at least k, returns a k x k table without the sentinel: cell
\* (i, j) is the subclass's distance between atoms i and j.
C4_SingleMoleculeCropped ==
    (call.op = "transform" /\ call.max_atoms >= call.mol.n) =>
        /\ err = "none"
        /\ Len(out) = call.mol.n
        /\ \A i \in 1..Len(out) :
              /\ Len(out[i]) = call.mol.n
              /\ \A j \in 1..Len(out[i]) :
                    /\ ~out[i][j].nan
                    /\ out[i][j] = Distance(call.kind, call.mol, i, j)

C4_Witness ==
    /\ call.op = "transform" /\ err = "none"
    /\ call.mol.n = 3 /\ call.max_atoms = 5
    /\ Len(out) = 3 /\ out[1][3] = Val(2 * call.mol.step)

\* whether t has `rows` rows of `cols` cells each, cell (i, j) the distance
\* when i and j are both atoms of m and the sentinel otherwise
PaddedTable(t, kind, m, rows, cols) ==
    /\ Len(t) = rows
    /\ \A i \in 1..Len(t) :
          /\ Len(t[i]) = cols
          /\ \A j \in 1..Len(t[i]) :
                t[i][j] = IF i <= m.n /\ j <= m.n THEN Distance(kind, m, i, j)
                          ELSE NaN

\* C5 as stated: the table _transform_mol computes for a molecule of k atoms
\* on a transformer with max_atoms M >= k has M rows and M columns, the
\* sentinel in every row and column from k on; so has every molecule's table
\* in a batch.
C5_PerMoleculeTableSquare ==
    /\ (call.op = "_transform_mol" /\ call.max_atoms >= call.mol.n) =>
          (err = "none"
             /\ PaddedTable(out, call.kind, call.mol, call.max_atoms, call.max_atoms))
    /\ call.op = "transform_batch" =>
          \A t \in 1..Len(call.mols) :
             PaddedTable(out.per_mol[t], call.kind, call.mols[t],
                         call.max_atoms, call.max_atoms)

\* C5 amended: that table has k rows and M columns: the distance in cell
\* (i, j) for j < k, the sentinel (not zero) in every column from k on, and no
\* row beyond the molecule's atoms. In a batch every molecule's table has M
\* columns, M the largest atom count of the batch, and as many rows as the
\* molecule has atoms.
C5_PerMoleculeTableRowsAreAtoms ==
    /\ (call.op = "_transform_mol" /\ call.max_atoms >= call.mol.n) =>
          (err = "none"
             /\ PaddedTable(out, call.kind, call.mol, call.mol.n, call.max_atoms))
    /\ call.op = "transform_batch" =>
          \A t \in 1..Len(call.mols) :
             PaddedTable(out.per_mol[t], call.kind, call.mols[t],
                         call.mols[t].n, call.max_atoms)

C5_Witness ==
    /\ call.op = "transform_batch"
    /\ [t \in 1..Len(call.mols) |-> call.mols[t].n] = <<3, 5, 2>>
    /\ [t \in 1..Len(call.mols) |-> Len(out.per_mol[t])] = <<3, 5, 2>>
    /\ \A t \in 1..3 : Len(out.per_mol[t][1]) = 5
    /\ out.per_mol[3][1][3] = NaN

-----------------------------------------------------------------------------
(* Properties of the registry, under SpecRegistry. *)

Symbol(a) == PERIODIC_TABLE[a.z].symbol

ElementNames == {"is_" \o ORGANIC[i] : i \in 1..Len(ORGANIC)}

HybridNames == {"is_" \o HybridizationNames[i][1] \o "_hybridized" :
                   i \in 1..Len(HybridizationNames)}

\* the columns of the last row that are in `names` and hold True
TrueColumns(names) ==
    {j \in 1..Len(out) : Labels[j] \in names /\ out[j] = Bool(TRUE)}

\* C7: the registry's is_<e> is true of an atom exactly when the atom's symbol
\* is e; in the row of an atom at most one is_<e> is true, and exactly one
\* when the atom's symbol is in ORGANIC.
C7_ElementFeatures ==
    /\ call.op = "feature" =>
          \A i \in 1..Len(ORGANIC) :
             call.name = "is_" \o ORGANIC[i]
                => out = Bool(Symbol(call.atom) = ORGANIC[i])
    /\ call.op = "transform_atom" =>
          /\ Cardinality(TrueColumns(ElementNames)) <= 1
          /\ Symbol(call.atom) \in Range(ORGANIC)
                => Cardinality(TrueColumns(ElementNames)) = 1

C7_Witness ==
    /\ call.op = "transform_atom"
    /\ Symbol(call.atom) = "Cl"
    /\ \E j \in TrueColumns(ElementNames) : Labels[j] = "is_Cl"

\* C8: the registry's is_<h>_hybridized is true of an atom exactly when the
\* atom's hybridization enumerant is h; in the row of an atom exactly one of
\* them is true.
C8_HybridizationFeatures ==
    /\ call.op = "feature" =>
          \A i \in 1..Len(HybridizationNames) :
             call.name = "is_" \o HybridizationNames[i][1] \o "_hybridized"
                => out = Bool(call.atom.hyb = HybridizationNames[i][2])
    /\ call.op = "transform_atom" =>
          Cardinality(TrueColumns(HybridNames)) = 1

C8_Witness ==
    /\ call.op = "feature"
    /\ call.name = "is_SP3D2_hybridized"
    /\ call.atom.hyb = 6
    /\ out = Bool(TRUE)

-----------------------------------------------------------------------------
(* Properties of gasteiger_charge, under SpecCharge. *)

\* C9: a call of gasteiger_charge runs the toolkit's computation exactly when
\* force_calc is set or the atom has no cached charge; a call without
\* force_calc on an atom with a cached charge, whatever its value, returns the
\* cached value.
C9_ComputedOnlyWhileUncached ==
    call.op = "gasteiger_charge" =>
        /\ computed <=> (call.force_calc \/ ~call.cache.set)
        /\ (call.cache.set /\ ~call.force_calc) => out = call.cache.v

=============================================================================
